---- MODULE Spec2Model ----
(***************************************************************************)
(* Verification model of sn_transfers/src/wallet/data_payments.rs:         *)
(* PaymentQuote::has_expired, PaymentQuote::is_newer_than,                 *)
(* PaymentQuote::historical_verify and PaymentDetails::to_payment.         *)
(*                                                                         *)
(* Time is counted in ticks; TicksPerSec ticks make one second, so that    *)
(* SystemTime values carry a sub-second part and Duration::as_secs is a    *)
(* real truncation.  usize is modelled with UsizeBits bits.                *)
(***************************************************************************)
EXTENDS Integers, Sequences, FiniteSets, TLC

VARIABLES overflow_checks, now, qa, qb, hv_ab, hv_ba, expired, details, payment, chain

vars == <<overflow_checks, now, qa, qb, hv_ab, hv_ba, expired, details, payment, chain>>

(* ------------------------------ bounds --------------------------------- *)

\* clock resolution: ticks per second
TicksPerSec == 2
\* width of usize in the model
UsizeBits == 8
\* longest chain of stored quotes in the audit specification
MaxChain == 3

(* --------------------------- program constants ------------------------- *)

QUOTE_EXPIRATION_SECS == 3600
\* "give it a margin of 10 to avoid system glitch"
LiveTimeMargin == 10
\* close_records_stored + 20 < max_records
PruneHeadroom == 20

USIZE_MAX == 2 ^ UsizeBits - 1

Secs(s) == s * TicksPerSec

(* ------------------------------ data types ----------------------------- *)

QuotingMetrics(crs, maxr, pay, live) ==
    [close_records_stored |-> crs, max_records |-> maxr,
     received_payment_count |-> pay, live_time |-> live]

PaymentQuote(content, cost, ts, metrics, sig) ==
    [content |-> content, cost |-> cost, timestamp |-> ts,
     quoting_metrics |-> metrics, signature |-> sig]

\* QuotingMetrics::new / Default: all fields zero
QuotingMetrics_new == QuotingMetrics(0, 0, 0, 0)

(* ----------------------- std::time as the code uses it ----------------- *)

\* SystemTime::duration_since / SystemTime::elapsed: Err when the clock read
\* is earlier than the timestamp
duration_since(read, ts) ==
    IF read >= ts THEN [ok |-> TRUE, dur |-> read - ts]
                  ELSE [ok |-> FALSE, dur |-> 0]

\* elapsed() with the error replaced by a zero duration
elapsed_saturating(ts, read) == [ok |-> TRUE, dur |-> IF read >= ts THEN read - ts ELSE 0]

elapsed(ts, read) == duration_since(read, ts)

\* Duration::as_secs: whole seconds, the sub-second part is dropped
as_secs(dur) == dur \div TicksPerSec

saturating_sub(x, y) == IF x >= y THEN x - y ELSE 0

(* ------------------------------ has_expired ---------------------------- *)

\* expiry at the limit itself
has_expired_inclusive(self, clock) ==
    LET d == duration_since(clock, self.timestamp)
    IN  IF ~d.ok THEN TRUE
        ELSE as_secs(d.dur) >= QUOTE_EXPIRATION_SECS

has_expired(self, clock) ==
    LET d == duration_since(clock, self.timestamp)
    IN  IF ~d.ok THEN TRUE
        ELSE as_secs(d.dur) > QUOTE_EXPIRATION_SECS

(* ---------------------------- historical_verify ------------------------ *)

\* the receiver compared with itself
is_newer_than_self(self, other) == self.timestamp > self.timestamp

is_newer_than(self, other) == self.timestamp > other.timestamp

Ret(v, msg) == [panicked |-> FALSE, value |-> v, info |-> msg]
Panic(msg) == [panicked |-> TRUE, value |-> FALSE, info |-> msg]

live_time_out_of_sequence(new_quote, old_quote) ==
    new_quote.quoting_metrics.live_time < old_quote.quoting_metrics.live_time

\* the two operands exchanged
live_time_out_of_sync_swapped(live_time_diff, time_diff) ==
    time_diff > live_time_diff + LiveTimeMargin

\* the margin left out
live_time_out_of_sync_no_margin(live_time_diff, time_diff) ==
    live_time_diff > time_diff

live_time_out_of_sync(live_time_diff, time_diff) ==
    live_time_diff > time_diff + LiveTimeMargin

\* usize `+`: overflow panics when the build has overflow checks, wraps otherwise
usize_add_overflows(x, y) == x + y > USIZE_MAX
usize_wrapping_add(x, y) == (x + y) % (2 ^ UsizeBits)

records_out_of_sequence(new_quote, old_quote) ==
    /\ usize_wrapping_add(new_quote.quoting_metrics.close_records_stored, PruneHeadroom)
         < new_quote.quoting_metrics.max_records
    /\ new_quote.quoting_metrics.close_records_stored
         < old_quote.quoting_metrics.close_records_stored

payment_count_out_of_sequence(new_quote, old_quote) ==
    new_quote.quoting_metrics.received_payment_count
        < old_quote.quoting_metrics.received_payment_count

\* read1, read2: the clock values seen by the two calls of elapsed()
historical_verify(self, other, read1, read2, checks) ==
    LET self_is_newer == is_newer_than(self, other)
        old_quote == IF self_is_newer THEN other ELSE self
        new_quote == IF self_is_newer THEN self ELSE other
        old_elapsed == elapsed(old_quote.timestamp, read1)
        new_elapsed == elapsed(new_quote.timestamp, read2)
        time_diff == saturating_sub(as_secs(old_elapsed.dur), as_secs(new_elapsed.dur))
        live_time_diff == new_quote.quoting_metrics.live_time
                            - old_quote.quoting_metrics.live_time
    IN  IF live_time_out_of_sequence(new_quote, old_quote)
          THEN Ret(FALSE, "Claimed live_time out of sequence")
        ELSE IF ~old_elapsed.ok THEN Ret(FALSE, "timestamp failure")
        ELSE IF ~new_elapsed.ok THEN Ret(FALSE, "timestamp failure")
        ELSE IF live_time_out_of_sync(live_time_diff, time_diff)
          THEN Ret(FALSE, "claimed live_time out of sync with the timestamp")
        ELSE IF checks /\ usize_add_overflows(
                            new_quote.quoting_metrics.close_records_stored, PruneHeadroom)
          THEN Panic("attempt to add with overflow")
        ELSE IF records_out_of_sequence(new_quote, old_quote)
          THEN Ret(FALSE, "claimed records_stored out of sequence")
        ELSE IF payment_count_out_of_sequence(new_quote, old_quote)
          THEN Ret(FALSE, "claimed received_payment_count out of sequence")
        ELSE Ret(TRUE, "")

(* -------------------------------- to_payment --------------------------- *)

Payment(transfers, quote) == [transfers |-> transfers, quote |-> quote]

\* the royalty transfer first
to_payment_swapped(self) == Payment(<<self.royalties[1], self.transfer[1]>>, self.quote)

to_payment(self) == Payment(<<self.transfer[1], self.royalties[1]>>, self.quote)

(* ------------------------------ input sets ----------------------------- *)

\* timestamps within the first second and at its end
Stamps == 0 .. TicksPerSec

GridMetrics ==
    [close_records_stored : {1, USIZE_MAX - 1, USIZE_MAX},
     max_records : {PruneHeadroom + 1, PruneHeadroom + 2},
     received_payment_count : {2, 3},
     live_time : {0, LiveTimeMargin, LiveTimeMargin + 1}]

GridQuotes ==
    [content : {"x"}, cost : {1}, timestamp : Stamps,
     quoting_metrics : GridMetrics, signature : {<<>>}]

Quote(ts, crs, maxr, pay, live) ==
    PaymentQuote("x", 1, ts, QuotingMetrics(crs, maxr, pay, live), <<>>)

\* the quotes of the monotonicity, fraud and pruning scenarios
ExOld == Quote(0, 5, 100, 2, 10)
ExNew == Quote(Secs(3600), 6, 100, 3, 11)
ExFraud == Quote(Secs(60), 6, 100, 3, 100)
ExFull == Quote(0, 95, 100, 2, 10)
ExPruned == Quote(1, 80, 100, 2, 10)
ExHalf == Quote(0, 50, 100, 2, 10)
ExShrunk == Quote(1, 40, 100, 2, 10)

ExamplePairs ==
    {<<ExOld, ExNew>>, <<ExOld, ExFraud>>, <<ExFull, ExPruned>>, <<ExHalf, ExShrunk>>}

Scenario(a, b, clock) == [qa |-> a, qb |-> b, now |-> clock]

Scenarios ==
    {Scenario(a, b, clock) : a \in GridQuotes, b \in GridQuotes, clock \in 1 .. TicksPerSec + 1}
    \cup {Scenario(p[1], p[2], clock) : p \in ExamplePairs, clock \in {Secs(3600), Secs(3600) + 1}}
    \cup {Scenario(p[2], p[1], clock) : p \in ExamplePairs, clock \in {Secs(3600), Secs(3600) + 1}}

\* the clock may move between the two reads of one call, in either direction
Skews == {-1, 0, 1}

(* --------------------------------- state ------------------------------- *)

NoCall == [done |-> FALSE, read1 |-> 0, read2 |-> 0, ret |-> Ret(FALSE, "")]
NoExpiry == [done |-> FALSE, clock |-> 0, value |-> FALSE]

PaymentDetails(recipient, peer, transfer, royalties, quote) ==
    [recipient |-> recipient, peer_id_bytes |-> peer, transfer |-> transfer,
     royalties |-> royalties, quote |-> quote]

\* PaymentQuote::zero at clock value 0
PaymentQuote_zero == PaymentQuote("", 0, 0, QuotingMetrics_new, <<>>)

NoDetails == PaymentDetails("pk1", <<>>, <<"t1", 1>>, <<"t2", 1>>, PaymentQuote_zero)
NoPayment == [done |-> FALSE, value |-> Payment(<<>>, PaymentQuote_zero)]

\* a panic ends the program
Panicked == hv_ab.ret.panicked \/ hv_ba.ret.panicked

Idle ==
    /\ hv_ab = NoCall
    /\ hv_ba = NoCall
    /\ expired = NoExpiry
    /\ details = NoDetails
    /\ payment = NoPayment
    /\ chain = <<>>

(* -------------------------------- actions ------------------------------ *)

\* qa.historical_verify(&qb); the clock moves by skew between the two reads
HistoricalVerifyAB(skew) ==
    /\ ~hv_ab.done
    /\ ~Panicked
    /\ now + skew >= 0
    /\ hv_ab' = [done |-> TRUE, read1 |-> now, read2 |-> now + skew,
                 ret |-> historical_verify(qa, qb, now, now + skew, overflow_checks)]
    /\ now' = now + skew
    /\ UNCHANGED <<overflow_checks, qa, qb, hv_ba, expired, details, payment, chain>>

\* qb.historical_verify(&qa)
HistoricalVerifyBA(skew) ==
    /\ ~hv_ba.done
    /\ ~Panicked
    /\ now + skew >= 0
    /\ hv_ba' = [done |-> TRUE, read1 |-> now, read2 |-> now + skew,
                 ret |-> historical_verify(qb, qa, now, now + skew, overflow_checks)]
    /\ now' = now + skew
    /\ UNCHANGED <<overflow_checks, qa, qb, hv_ab, expired, details, payment, chain>>

\* qa.has_expired()
HasExpired ==
    /\ ~expired.done
    /\ expired' = [done |-> TRUE, clock |-> now, value |-> has_expired(qa, now)]
    /\ UNCHANGED <<overflow_checks, now, qa, qb, hv_ab, hv_ba, details, payment, chain>>

\* details.to_payment()
ToPayment ==
    /\ ~payment.done
    /\ payment' = [done |-> TRUE, value |-> to_payment(details)]
    /\ UNCHANGED <<overflow_checks, now, qa, qb, hv_ab, hv_ba, expired, details, chain>>

(* ---------------- historical_verify on one pair of quotes -------------- *)

Init ==
    /\ overflow_checks \in BOOLEAN
    /\ \E s \in Scenarios : qa = s.qa /\ qb = s.qb /\ now = s.now
    /\ Idle

Next == \E skew \in Skews : HistoricalVerifyAB(skew)

Spec == Init /\ [][Next]_vars

(* ------------------- vocabulary of the properties ---------------------- *)

\* the pair (old, new) of the call qa.historical_verify(&qb): the quote with
\* the smaller timestamp first, the receiver first on a tie
Old == IF qa.timestamp > qb.timestamp THEN qb ELSE qa
New == IF qa.timestamp > qb.timestamp THEN qa ELSE qb

OldM == Old.quoting_metrics
NewM == New.quoting_metrics

\* whole seconds between the two timestamps
GapSecs == (New.timestamp - Old.timestamp) \div TicksPerSec

\* whole seconds elapsed since each timestamp at the clock read that served it
OldElapsedSecs == (hv_ab.read1 - Old.timestamp) \div TicksPerSec
NewElapsedSecs == (hv_ab.read2 - New.timestamp) \div TicksPerSec
TimeDiff == IF OldElapsedSecs >= NewElapsedSecs THEN OldElapsedSecs - NewElapsedSecs ELSE 0

OneClock == hv_ab.read1 = hv_ab.read2
NotInFuture == Old.timestamp <= hv_ab.read1 /\ New.timestamp <= hv_ab.read2

Accepted == ~hv_ab.ret.panicked /\ hv_ab.ret.value
Rejected == ~hv_ab.ret.panicked /\ ~hv_ab.ret.value

LiveTimeMonotone == NewM.live_time >= OldM.live_time
PaymentsMonotone == NewM.received_payment_count >= OldM.received_payment_count
RecordsPlausible ==
    \/ NewM.close_records_stored >= OldM.close_records_stored
    \/ NewM.close_records_stored + 20 >= NewM.max_records

(* C3: for two quotes with distinct timestamps, both not later than now,   *)
(* historical_verify returns true exactly when live_time did not decrease, *)
(* live_time grew by at most gap + 10 (gap: whole seconds between the      *)
(* timestamps), close_records_stored did not decrease or the newer quote   *)
(* is within 20 of its max_records, and received_payment_count did not     *)
(* decrease; the scenario old {10, 5, 100, 2} at T, new {11, 6, 3} at      *)
(* T+3600 is accepted.                                                     *)
C3_ExactlyWhenAllChecksPass ==
    (hv_ab.done /\ OneClock /\ NotInFuture /\ qa.timestamp # qb.timestamp)
        => /\ ~hv_ab.ret.panicked
           /\ hv_ab.ret.value <=>
                 /\ LiveTimeMonotone
                 /\ NewM.live_time - OldM.live_time <= GapSecs + 10
                 /\ RecordsPlausible
                 /\ PaymentsMonotone

(* C4: with both timestamps not later than the clock, time_diff is old's   *)
(* elapsed seconds minus new's elapsed seconds saturated at zero, and the  *)
(* call returns false whenever new.live_time - old.live_time exceeds       *)
(* time_diff + 10, hours being compared with seconds as they are; live     *)
(* time 10 at T then 100 at T+60 is rejected.                              *)
C4_LiveTimeOutrunsClock ==
    (hv_ab.done /\ NotInFuture)
        => /\ (NewM.live_time - OldM.live_time > TimeDiff + 10) => Rejected
           /\ ({qa, qb} = {ExOld, ExFraud}) => Rejected

C4_Witness ==
    /\ hv_ab.done /\ NotInFuture /\ LiveTimeMonotone
    /\ New.timestamp > Old.timestamp
    /\ NewM.live_time - OldM.live_time = TimeDiff + 11
    /\ hv_ab.ret.info = "claimed live_time out of sync with the timestamp"
    /\ Rejected

\* every check but the one on close_records_stored passes
OtherChecksPass ==
    /\ LiveTimeMonotone
    /\ NotInFuture
    /\ NewM.live_time - OldM.live_time <= TimeDiff + 10
    /\ PaymentsMonotone

(* C5: when the newer quote stores fewer close records than the older one  *)
(* and every other check passes, the pair is accepted if and only if       *)
(* new.close_records_stored + 20 >= new.max_records, the newer quote's own *)
(* max_records being the only one consulted.                               *)
C5_PruningAllowance ==
    (hv_ab.done /\ OtherChecksPass
       /\ NewM.close_records_stored < OldM.close_records_stored)
        => /\ ~hv_ab.ret.panicked
           /\ hv_ab.ret.value <=> (NewM.close_records_stored + 20 >= NewM.max_records)

(* C6: when a quote's timestamp is later than the clock value read for it, *)
(* historical_verify returns false whatever the metrics are, and it        *)
(* returns: it does not panic.                                             *)
C6_FutureTimestampRejected ==
    (hv_ab.done /\ ~NotInFuture) => Rejected

C6_Witness ==
    /\ hv_ab.done
    /\ New.timestamp > hv_ab.read2
    /\ LiveTimeMonotone /\ PaymentsMonotone
    /\ NewM.close_records_stored >= OldM.close_records_stored
    /\ hv_ab.ret.info = "timestamp failure"
    /\ Rejected

\* the records check is reached: none of the earlier checks returned
RecordsCheckReached ==
    /\ LiveTimeMonotone
    /\ NotInFuture
    /\ NewM.live_time - OldM.live_time <= TimeDiff + 10

(* C7: historical_verify is total over the whole range of its unsigned     *)
(* fields: every call ends in a boolean and no intermediate value, in      *)
(* particular new.close_records_stored + 20, leaves the range of its type. *)
C7_TotalNoOverflow ==
    hv_ab.done
        => /\ ~hv_ab.ret.panicked
           /\ RecordsCheckReached => NewM.close_records_stored + 20 <= USIZE_MAX

(* --------- both argument orders of historical_verify on one pair ------- *)

SymQuotes ==
    [content : {"x"}, cost : {1}, timestamp : Stamps,
     quoting_metrics : [close_records_stored : {1, USIZE_MAX},
                        max_records : {PruneHeadroom + 2},
                        received_payment_count : {2, 3},
                        live_time : {LiveTimeMargin, LiveTimeMargin + 1}],
     signature : {<<>>}]

InitSymmetry ==
    /\ overflow_checks \in BOOLEAN
    /\ qa \in SymQuotes
    /\ qb \in SymQuotes
    /\ now \in 1 .. TicksPerSec + 1
    /\ Idle

NextSymmetry ==
    \E skew \in {0, 1} : HistoricalVerifyAB(skew) \/ HistoricalVerifyBA(skew)

SpecSymmetry == InitSymmetry /\ [][NextSymmetry]_vars

SameReads ==
    /\ hv_ab.done /\ hv_ba.done
    /\ hv_ab.read1 = hv_ba.read1
    /\ hv_ab.read2 = hv_ba.read2

(* C1 as stated: for every pair of quotes a and b, equal timestamps        *)
(* included, a.historical_verify(b) and b.historical_verify(a) evaluated   *)
(* at the same clock value return the same boolean.                        *)
C1_Symmetric ==
    SameReads => hv_ab.ret = hv_ba.ret

(* C1 amended: for every pair of quotes with distinct timestamps,          *)
(* a.historical_verify(b) and b.historical_verify(a) evaluated at the same *)
(* clock values have the same outcome.                                     *)
C1_SymmetricDistinct ==
    (SameReads /\ qa.timestamp # qb.timestamp) => hv_ab.ret = hv_ba.ret

C1_Witness ==
    /\ SameReads
    /\ is_newer_than(qa, qb)
    /\ qa.quoting_metrics # qb.quoting_metrics
    /\ hv_ab.ret.value /\ hv_ba.ret.value

(* ------------- historical_verify under a clock that moves -------------- *)

SkewQuotes ==
    [content : {"x"}, cost : {1}, timestamp : {0, 1, Secs(20)},
     quoting_metrics : [close_records_stored : {5},
                        max_records : {100},
                        received_payment_count : {2},
                        live_time : {0, 19, 20, 21}],
     signature : {<<>>}]

LongSkews == {0, Secs(10) - 1, Secs(10), Secs(10) + 1, Secs(11)}

InitSkew ==
    /\ overflow_checks \in BOOLEAN
    /\ qa \in SkewQuotes
    /\ qb \in SkewQuotes
    /\ now \in {Secs(20), Secs(20) + 1}
    /\ Idle

NextSkew == \E skew \in LongSkews : HistoricalVerifyAB(skew)

SpecSkew == InitSkew /\ [][NextSkew]_vars

(* C9: the two elapsed times are taken at two clock reads, old quote       *)
(* first.  When the clock advances by at most 10 seconds between them,     *)
(* both timestamps are not later than the first read and live_time grew by *)
(* no more than the whole seconds between the timestamps, the check of     *)
(* live_time against the wall clock does not reject the pair.              *)
C9_MarginAbsorbsSkew ==
    (/\ hv_ab.done
     /\ hv_ab.read2 - hv_ab.read1 \in 0 .. Secs(10)
     /\ Old.timestamp <= hv_ab.read1 /\ New.timestamp <= hv_ab.read1
     /\ NewM.live_time - OldM.live_time <= GapSecs)
        => hv_ab.ret.info # "claimed live_time out of sync with the timestamp"

C9_Witness ==
    /\ hv_ab.done
    /\ hv_ab.read2 - hv_ab.read1 = Secs(10)
    /\ Old.timestamp <= hv_ab.read1 /\ New.timestamp <= hv_ab.read1
    /\ NewM.live_time - OldM.live_time = GapSecs
    /\ GapSecs = TimeDiff + 10
    /\ TimeDiff > 0
    /\ Accepted

(* ------------------------------ has_expired ---------------------------- *)

ExpiryClocks ==
    (0 .. TicksPerSec) \cup (Secs(3600) - 1 .. Secs(3601) + TicksPerSec + 1)

\* the wall clock moves on between calls
Tick ==
    /\ \E t \in ExpiryClocks : t > now /\ now' = t
    /\ UNCHANGED <<overflow_checks, qa, qb, hv_ab, hv_ba, expired, details, payment, chain>>

InitExpiry ==
    /\ overflow_checks \in BOOLEAN
    /\ qa \in SymQuotes
    /\ qb = PaymentQuote_zero
    /\ now \in ExpiryClocks
    /\ Idle

NextExpiry == HasExpired \/ Tick

SpecExpiry == InitExpiry /\ [][NextExpiry]_vars

DetailsSet ==
    [recipient : {"pk1", "pk2"},
     peer_id_bytes : {<<>>, <<7>>},
     transfer : {"t1", "t2"} \X {1, 2},
     royalties : {"t1", "t2"} \X {1, 2},
     quote : {PaymentQuote_zero, ExOld}]

InitPayment ==
    /\ overflow_checks \in BOOLEAN
    /\ qa = PaymentQuote_zero
    /\ qb = PaymentQuote_zero
    /\ now = 0
    /\ hv_ab = NoCall
    /\ hv_ba = NoCall
    /\ expired = NoExpiry
    /\ details \in DetailsSet
    /\ payment = NoPayment
    /\ chain = <<>>

NextPayment == ToPayment

SpecPayment == InitPayment /\ [][NextPayment]_vars

(* C8: to_payment always succeeds and returns a Payment whose transfers    *)
(* are exactly two, d.transfer.0 then d.royalties.0, and whose quote       *)
(* equals d.quote field for field; d itself is unchanged by the call.      *)
C8_ToPayment ==
    /\ [](payment.done =>
            /\ Len(payment.value.transfers) = 2
            /\ payment.value.transfers[1] = details.transfer[1]
            /\ payment.value.transfers[2] = details.royalties[1]
            /\ \A f \in DOMAIN details.quote :
                  payment.value.quote[f] = details.quote[f]
            /\ DOMAIN payment.value.quote = DOMAIN details.quote)
    /\ [][details' = details]_vars

C8_Witness ==
    /\ payment.done
    /\ details.transfer[1] # details.royalties[1]
    /\ details.quote = ExOld
    /\ payment.value.transfers = <<details.transfer[1], details.royalties[1]>>

(* ------------- historical_verify along a chain of quotes --------------- *)

ChainQuotes ==
    [content : {"x"}, cost : {1}, timestamp : 0 .. TicksPerSec + 1,
     quoting_metrics : [close_records_stored : {5},
                        max_records : {100},
                        received_payment_count : {2, 3},
                        live_time : {0, LiveTimeMargin + 1, 2 * LiveTimeMargin + 2}],
     signature : {<<>>}]

MaxChainClock == TicksPerSec + 2

Last(seq) == seq[Len(seq)]

\* Last(chain).quote.historical_verify(&q) for a quote q with a later
\* timestamp: the chain is extended by q exactly when the call returns true.
\* skew: the move of the clock between the two reads of the call.
Audit(q, skew) ==
    /\ Len(chain) < MaxChain
    /\ is_newer_than(q, Last(chain).quote)
    /\ now + skew \in 0 .. MaxChainClock
    /\ LET r == historical_verify(Last(chain).quote, q, now, now + skew, overflow_checks)
       IN  chain' = IF ~r.panicked /\ r.value
                      THEN Append(chain, [quote |-> q, skew |-> skew])
                      ELSE chain
    /\ now' = now + skew
    /\ UNCHANGED <<overflow_checks, qa, qb, hv_ab, hv_ba, expired, details, payment>>

ChainTick ==
    /\ now < MaxChainClock
    /\ now' = now + 1
    /\ UNCHANGED <<overflow_checks, qa, qb, hv_ab, hv_ba, expired, details, payment, chain>>

InitChain ==
    /\ overflow_checks \in BOOLEAN
    /\ qa = PaymentQuote_zero
    /\ qb = PaymentQuote_zero
    /\ now = 0
    /\ hv_ab = NoCall
    /\ hv_ba = NoCall
    /\ expired = NoExpiry
    /\ details = NoDetails
    /\ payment = NoPayment
    /\ \E q \in ChainQuotes : chain = <<[quote |-> q, skew |-> 0]>>

NextChain ==
    \/ \E q \in ChainQuotes, skew \in Skews : Audit(q, skew)
    \/ ChainTick

SpecChain == InitChain /\ [][NextChain]_vars

ChainLive(i) == chain[i].quote.quoting_metrics.live_time
ChainPayments(i) == chain[i].quote.quoting_metrics.received_payment_count
ChainGapSecs == (Last(chain).quote.timestamp - chain[1].quote.timestamp) \div TicksPerSec
ChainGrowth == ChainLive(Len(chain)) - ChainLive(1)
ChainMonotone ==
    \A i \in 1 .. Len(chain) - 1 :
        /\ chain[i].quote.timestamp < chain[i + 1].quote.timestamp
        /\ ChainLive(i) <= ChainLive(i + 1)
        /\ ChainPayments(i) <= ChainPayments(i + 1)
\* no accepted audit saw the clock step back between its two reads
NoStepBack == \A i \in 1 .. Len(chain) : chain[i].skew >= 0

(* C10 as stated: along a chain q0 .. qk of quotes with increasing         *)
(* timestamps whose consecutive pairs were all accepted, live_time and     *)
(* received_payment_count do not decrease and qk.live_time - q0.live_time  *)
(* is at most the whole seconds between q0 and qk plus 10 * k.             *)
C10_ChainBound ==
    NoStepBack =>
        /\ ChainMonotone
        /\ ChainGrowth <= ChainGapSecs + 10 * (Len(chain) - 1)

(* C10 amended: live_time and received_payment_count do not decrease along *)
(* the chain, and when no audit saw the clock step back between its two    *)
(* reads, qk.live_time - q0.live_time is at most the whole seconds between *)
(* q0 and qk plus 11 * k: each accepted pair adds the margin of 10 and up  *)
(* to one second that truncating the two elapsed times can add to the gap. *)
C10_ChainBoundTruncated ==
    /\ ChainMonotone
    /\ NoStepBack => ChainGrowth <= ChainGapSecs + 11 * (Len(chain) - 1)

\* consecutive pairs accepted, the pair (q0, qk) rejected at the same clock
C10_Witness ==
    /\ Len(chain) = 3
    /\ NoStepBack
    /\ ChainGrowth > ChainGapSecs + 10 * 2
    /\ Last(chain).quote.timestamp <= now
    /\ ~historical_verify(chain[1].quote, Last(chain).quote, now, now, overflow_checks).value

====
